---- MODULE Spec2Model ----
(***************************************************************************)
(* MetaChat: the language-model client utility (utils/openai_utils.py),    *)
(* the meta-framework core (meta_framework.py) and the Streamlit UI        *)
(* (ui/streamlit_app.py), as a machine of script threads.  Every browser   *)
(* session of the UI runs its script in a thread of its own inside one     *)
(* process; the threads share the module global `client`, the process      *)
(* environment, the one cached MetaChat instance and the chat store.       *)
(*                                                                         *)
(* Python text (str) is a sequence of tokens; the value None, where a      *)
(* text may be absent, is the one-token sequence <<NoneTok>>, a token no   *)
(* text contains.                                                          *)
(***************************************************************************)
EXTENDS Integers, Sequences, FiniteSets, TLC

VARIABLES
    client,          \* openai_utils.client, the module global
    environ,         \* os.environ["OPENAI_API_KEY"]
    db,              \* the chat store: session id -> transcript
    chats,           \* the session ids of the store, in creation order
    system_prompts,  \* MetaChat.system_prompts of the cached instance
    session_state,   \* st.session_state of each browser session
    widgets,         \* the widget values of each browser session
    pc,              \* the place of each thread in its code
    frame,           \* the locals of each thread
    outcome,         \* what the last finished operation of a thread gave
    constructed,     \* ghost: the number of OpenAI(...) constructions
    invocation,      \* ghost: the calls, replies and writes of the current operation
    history,         \* ghost: who wrote each message of the store, in which turn
    handed,          \* ghost: the handles get_client has returned
    endpoint,        \* the texts the completion endpoint may answer with
    launcher,        \* app.py: the launcher process and what it finds around it
    reruns           \* ghost: the number of operations each thread has started

vars == <<client, environ, db, chats, system_prompts, session_state, widgets,
          pc, frame, outcome, constructed, invocation, history, handed, endpoint, launcher,
          reruns>>

-----------------------------------------------------------------------------
(* Bounds *)

\* script runs of all browser sessions together
MaxReruns == 4
\* sessions the store may hold
MaxChats == 2
\* messages of a transcript the core is called on
MaxLen == 2
\* calls of the core by one caller
MaxCalls == 2

Threads == {"b1", "b2"}
\* the session ids begin_chat hands out, in order; c0 is an id of no session
ChatNames == <<"c1", "c2", "c3", "c4">>
ChatIds == { ChatNames[i] : i \in 1..MaxChats }
UnknownId == "c0"

-----------------------------------------------------------------------------
(* Values *)

NoneTok == "<None>"
None == <<NoneTok>>
NoneId == "None"
NoKey == "<unset>"
NoClient == [id |-> 0, key |-> ""]

\* Python truth of a text or None
Truthy(x) == x # None /\ x # <<>>
\* str(x) as an f-string renders it
Str(x) == IF x = None THEN <<"None">> ELSE x

RECURSIVE Flatten(_)
Flatten(parts) ==
    IF parts = <<>> THEN <<>> ELSE Head(parts) \o Flatten(Tail(parts))

\* the texts a user types into the chat input
UserPrompts == { <<"I need a laptop">> }
\* the texts the completion endpoint may return: message.content is a text,
\* possibly empty, or absent
ChatReplies == { None, <<>>, <<"Ask about budget">>, <<"What is your budget?">> }
\* the texts it may return to a request for JSON: nothing, prose, and each
\* JSON value, bare or in a Markdown fence
JsonReplies ==
    { None, <<>>, <<"Sure, here is the offer">>,
      <<"<fence>json", "\n", "{\"a\":1}", "\n", "<fence>">>, <<"{\"a\":1}">>,
      <<"{}">>, <<"<fence>json", "\n", "[]", "\n", "<fence>">>, <<"0">>, <<"false">>,
      <<"null">> }
\* an endpoint that may answer anything to either stage
AnyEndpoint ==
    [stage \in {"advice", "enhance", "json", "text"} |->
       IF stage = "json" THEN JsonReplies ELSE ChatReplies]
\* an endpoint that has one text to give at each stage
PlainEndpoint ==
    [stage \in {"advice", "enhance", "json", "text"} |->
       IF stage = "advice" THEN { <<"Ask about budget">> }
       ELSE IF stage = "enhance" THEN { <<"What is your budget?">> }
       ELSE IF stage = "json" THEN { <<"{\"a\":1}">> }
       ELSE { <<"Hello">> }]
\* the keys typed into the sidebar
KeyInputs == { "sk-A" }

Roles == {"system", "user", "assistant"}
Contents == { None, <<>>, <<"hi">> }
Msg(role, content) == [role |-> role, content |-> content]
Messages == { Msg(r, c) : r \in Roles, c \in Contents }

RECURSIVE SeqsUpTo(_, _)
SeqsUpTo(S, n) ==
    IF n = 0 THEN { <<>> }
    ELSE LET shorter == SeqsUpTo(S, n - 1)
         IN shorter \cup { Append(s, x) : s \in { q \in shorter : Len(q) = n - 1 }, x \in S }

DefaultUserRole == <<"Inquirer">>
DefaultAssistantRole == <<"Sales Assistant">>

-----------------------------------------------------------------------------
(* The chat persistence utility (utils/chat_utils), by its contract *)

Range(s) == { s[i] : i \in 1..Len(s) }

\* fetch_chat: the transcript, or an empty result for a session that does or
\* does not exist alike
fetch_chat(store, ids, chat_id) ==
    IF chat_id \in Range(ids) THEN store[chat_id] ELSE <<>>

\* one line of the rendered block: the role's label, then the content
RenderLine(msg, user_role, assistant_role) ==
    (IF msg.role = "user" THEN user_role ELSE assistant_role)
        \o <<": ">> \o Str(msg.content) \o <<"\n">>

RECURSIVE RenderAll(_, _, _)
RenderAll(msgs, user_role, assistant_role) ==
    IF msgs = <<>> THEN <<>>
    ELSE (IF Head(msgs).role = "system" THEN <<>>
          ELSE RenderLine(Head(msgs), user_role, assistant_role))
         \o RenderAll(Tail(msgs), user_role, assistant_role)

\* parse_chat: the transcript as one labelled block, system messages left
\* out; empty for an empty or missing session
parse_chat(store, ids, chat_id, user_role, assistant_role) ==
    RenderAll(fetch_chat(store, ids, chat_id), user_role, assistant_role)

\* add_message: one message appended to the session's transcript
add_message(store, chat_id, role, content) ==
    [store EXCEPT ![chat_id] = Append(@, Msg(role, content))]

\* fetch_all: every session id of the store
fetch_all(ids) == ids

\* begin_chat: a session id never used before
begin_chat(ids) == ChatNames[Len(ids) + 1]

-----------------------------------------------------------------------------
(* MetaChat: the prompt registry and the two prompts *)

BuiltinPrompts ==
    << [id |-> 1, name |-> "Sales Manager Advisor",
        message |-> <<"You are a sales manager looking at a chat ...">>,
        model |-> "gpt-4o"],
       [id |-> 2, name |-> "Enhanced Sales Assistant",
        message |-> <<"You are a sales assistant who has received advice ...">>,
        model |-> "gpt-4o"] >>

NoPrompt == [id |-> 0, name |-> "", message |-> <<>>, model |-> ""]

\* next((p for p in prompts if p.get("id") == prompt_id), None)
FindPrompt(prompts, prompt_id) ==
    LET hits == { i \in 1..Len(prompts) : prompts[i].id = prompt_id }
    IN IF hits = {} THEN NoPrompt
       ELSE prompts[CHOOSE i \in hits : \A j \in hits : i <= j]

\* the f-string of _get_manager_advice
ManagerPrompt(formatted_chat) ==
    Flatten(<< <<"The current conversation between the sales assistant and inquirer is as follows:\n\n">>,
               Str(formatted_chat),
               <<"\n\nProvide specific advice to help the sales assistant better handle this conversation.">> >>)

\* the template filled without the advice
EnhancedPrompt_NoAdvice(formatted_chat, manager_advice, last_user_message) ==
    Flatten(<< <<"You have received the following advice from your Sales Manager:\n\n\"">>,
               <<"\"\n\nHere is the current chat:\n">>,
               Str(formatted_chat),
               <<"\n\nThe customer's last message was:\n\"">>,
               Str(last_user_message),
               <<"\"\n\nPlease respond to the customer's last message, applying the advice from your sales manager.\n">> >>)

\* the f-string of _generate_enhanced_response
EnhancedPrompt(formatted_chat, manager_advice, last_user_message) ==
    Flatten(<< <<"You have received the following advice from your Sales Manager:\n\n\"">>,
               Str(manager_advice),
               <<"\"\n\nHere is the current chat:\n">>,
               Str(formatted_chat),
               <<"\n\nThe customer's last message was:\n\"">>,
               Str(last_user_message),
               <<"\"\n\nPlease respond to the customer's last message, applying the advice from your sales manager.\n">> >>)

\* the two-message request of a stage
Request(prompt, user_content) ==
    << Msg("system", prompt.message), Msg("user", user_content) >>

\* the reverse scan of process_chat: the content of the most recent message
\* whose role is "user", None when there is none
RECURSIVE LastUserMessage(_)
LastUserMessage(msgs) ==
    IF msgs = <<>> THEN None
    ELSE IF msgs[Len(msgs)].role = "user" THEN msgs[Len(msgs)].content
    ELSE LastUserMessage(SubSeq(msgs, 1, Len(msgs) - 1))

-----------------------------------------------------------------------------
(* Threads *)

Frame0 ==
    [ top |-> "none", gc_caller |-> "none", stage |-> "none",
      chat_id |-> NoneId, user_role |-> <<>>, assistant_role |-> <<>>,
      messages |-> <<>>, formatted_chat |-> <<>>, last_user_message |-> None,
      manager_advice |-> None, enhanced_response |-> None,
      request |-> <<>>, model |-> "", openai_client |-> NoClient,
      trigger |-> "none", prompt |-> None, choice |-> NoneId,
      message |-> <<>>, prompt_id |-> 0, retry_count |-> 0, response_text |-> None,
      before |-> {} ]   \* ghost: the handles returned before this get_client call

NoOutcome == [op |-> "none", status |-> "none", error |-> "", value |-> <<>>]

\* ghost: what an operation was called with and on (its arguments, the store
\* and the caller's advice cache on entry) and what it has done so far
Invocation0 ==
    [ op |-> "none", chat_id |-> NoneId, entry |-> [c \in ChatIds |-> <<>>],
      args |-> <<>>, insights |-> <<>>,
      calls |-> <<>>, replies |-> <<>>, writes |-> <<>> ]

\* the ghost record of an invocation that starts on chat_id: the store as it
\* is on entry, and no call, reply or write yet
StartInvocation(op, chat_id) ==
    [Invocation0 EXCEPT !.op = op, !.chat_id = chat_id, !.entry = db]

\* the operation of thread t ends: an error reaches its caller (the UI
\* catches it, shows it and stops the script run), or a value is returned
Finish(t, status, error, value) ==
    /\ pc' = [pc EXCEPT ![t] = "idle"]
    /\ frame' = [frame EXCEPT ![t] = Frame0]
    /\ outcome' = [outcome EXCEPT ![t] =
                     [op |-> invocation[t].op, status |-> status,
                      error |-> error, value |-> value]]

Raise(t, error) == Finish(t, "error", error, <<>>)

-----------------------------------------------------------------------------
(* utils/openai_utils.py: get_client *)

\* a check for the absent variable only
KeyMissing_AbsentOnly(api_key) == api_key = NoKey

\* `not api_key`: the variable is absent or empty
KeyMissing(api_key) == api_key = NoKey \/ api_key = ""

\* OpenAI(api_key=api_key): a new object with that key
NewClient(n, api_key) == [id |-> n, key |-> api_key]

\* line 29, get_client called from the sidebar: `if client is None` reads
\* the global
GetClientEnter(t) ==
    /\ pc[t] = "gc_check"
    /\ pc' = [pc EXCEPT ![t] = IF client = NoClient THEN "gc_init" ELSE "gc_return"]
    /\ UNCHANGED <<client, environ, db, chats, system_prompts, session_state, widgets,
                   frame, outcome, constructed, invocation, history, handed, endpoint, launcher, reruns>>

\* lines 30-33: read the credential, fail without one, else construct the
\* client and store it in the global
GetClientInit(t) ==
    /\ pc[t] = "gc_init"
    /\ IF KeyMissing(environ)
       THEN /\ IF frame[t].gc_caller = "sidebar"
               THEN /\ pc' = [pc EXCEPT ![t] = "ui_chats"]
                    /\ frame' = [frame EXCEPT ![t].gc_caller = "none"]
                    /\ UNCHANGED outcome
               ELSE Raise(t, "OpenAI API key not set")
            /\ UNCHANGED <<client, constructed>>
       ELSE /\ client' = NewClient(constructed + 1, environ)
            /\ constructed' = constructed + 1
            /\ pc' = [pc EXCEPT ![t] = "gc_return"]
            /\ UNCHANGED <<frame, outcome>>
    /\ UNCHANGED <<environ, db, chats, system_prompts, session_state, widgets,
                   invocation, history, handed, endpoint, launcher, reruns>>

\* line 35: `return client` reads the global again and hands it to the
\* caller: the sidebar (which marks the key verified) or generate_text
GetClientReturn(t) ==
    /\ pc[t] = "gc_return"
    /\ handed' = handed \cup {client}
    /\ IF frame[t].gc_caller = "sidebar"
       THEN /\ session_state' = [session_state EXCEPT ![t].api_key_verified = TRUE]
            /\ pc' = [pc EXCEPT ![t] = "ui_chats"]
            /\ frame' = [frame EXCEPT ![t].gc_caller = "none"]
       ELSE /\ frame' = [frame EXCEPT ![t].openai_client = client,
                                      ![t].gc_caller = "none"]
            /\ pc' = [pc EXCEPT ![t] = "gt_create"]
            /\ UNCHANGED session_state
    /\ UNCHANGED <<client, environ, db, chats, system_prompts, widgets, outcome,
                   constructed, invocation, history, endpoint, launcher, reruns>>

-----------------------------------------------------------------------------
(* utils/openai_utils.py: generate_text *)

\* a generate_text that gets the client before it looks at the messages
GenerateTextEnter_ClientFirst(t) ==
    /\ pc[t] = "gt_entry"
    /\ invocation' = [invocation EXCEPT ![t].calls =
                        Append(@, [stage |-> frame[t].stage,
                                   request |-> frame[t].request,
                                   retry_count |-> frame[t].retry_count])]
    /\ pc' = [pc EXCEPT ![t] = IF client = NoClient THEN "gc_init" ELSE "gc_return"]
    /\ frame' = [frame EXCEPT ![t].gc_caller = "generate_text",
                              ![t].before = handed]
    /\ UNCHANGED outcome
    /\ UNCHANGED <<client, environ, db, chats, system_prompts, session_state,
                   widgets, constructed, history, handed, endpoint, launcher, reruns>>

\* lines 54-58 and 29: reject an empty message list, then call get_client,
\* whose `if client is None` reads the global
GenerateTextEnter(t) ==
    /\ pc[t] = "gt_entry"
    /\ invocation' = [invocation EXCEPT ![t].calls =
                        Append(@, [stage |-> frame[t].stage,
                                   request |-> frame[t].request,
                                   retry_count |-> frame[t].retry_count])]
    /\ IF frame[t].request = <<>>
       THEN Raise(t, "No messages provided.")
       ELSE /\ pc' = [pc EXCEPT ![t] = IF client = NoClient THEN "gc_init"
                                       ELSE "gc_return"]
            /\ frame' = [frame EXCEPT ![t].gc_caller = "generate_text",
                                      ![t].before = handed]
            /\ UNCHANGED outcome
    /\ UNCHANGED <<client, environ, db, chats, system_prompts, session_state,
                   widgets, constructed, history, handed, endpoint, launcher, reruns>>

\* what the endpoint may answer at a stage
Replies(stage) == endpoint[stage]

\* callers that take a missing or empty text for a failure
AfterGenerateText_Validating(t, text) ==
    IF ~Truthy(text) THEN Raise(t, "No text in response")
    ELSE IF frame[t].stage = "advice"
    THEN /\ frame' = [frame EXCEPT
               ![t].manager_advice = text,
               ![t].stage = "enhance",
               ![t].model = FindPrompt(system_prompts, 2).model,
               ![t].request =
                   Request(FindPrompt(system_prompts, 2),
                           EnhancedPrompt(frame[t].formatted_chat, text,
                                          frame[t].last_user_message))]
         /\ pc' = [pc EXCEPT ![t] = "gt_entry"]
         /\ UNCHANGED outcome
    ELSE IF frame[t].stage = "enhance"
    THEN /\ frame' = [frame EXCEPT ![t].enhanced_response = text]
         /\ pc' = [pc EXCEPT ![t] = "pc_persist"]
         /\ UNCHANGED outcome
    ELSE IF frame[t].stage = "json"
    THEN /\ frame' = [frame EXCEPT ![t].response_text = text]
         /\ pc' = [pc EXCEPT ![t] = "gj_parse"]
         /\ UNCHANGED outcome
    ELSE Finish(t, "ok", "", [text |-> text])

\* the caller of generate_text goes on with the text: _get_manager_advice
\* returns it to process_chat, which builds the request of
\* _generate_enhanced_response (lines 89-93, 149-171); or
\* _generate_enhanced_response returns it and process_chat goes to line 96;
\* or generate_json_custom_ai goes on to clean and parse it (line 136); or a
\* caller of generate_text itself gets the dict of lines 65-70
AfterGenerateText(t, text) ==
    IF frame[t].stage = "advice"
    THEN LET prompt == FindPrompt(system_prompts, 2)
         IN IF prompt = NoPrompt
            THEN Raise(t, "Enhanced assistant prompt not found")
            ELSE /\ frame' = [frame EXCEPT
                       ![t].manager_advice = text,
                       ![t].stage = "enhance",
                       ![t].model = prompt.model,
                       ![t].request =
                           Request(prompt,
                                   EnhancedPrompt(frame[t].formatted_chat, text,
                                                  frame[t].last_user_message))]
                 /\ pc' = [pc EXCEPT ![t] = "gt_entry"]
                 /\ UNCHANGED outcome
    ELSE IF frame[t].stage = "enhance"
    THEN /\ frame' = [frame EXCEPT ![t].enhanced_response = text]
         /\ pc' = [pc EXCEPT ![t] = "pc_persist"]
         /\ UNCHANGED outcome
    ELSE IF frame[t].stage = "json"
    THEN /\ frame' = [frame EXCEPT ![t].response_text = text]
         /\ pc' = [pc EXCEPT ![t] = "gj_parse"]
         /\ UNCHANGED outcome
    ELSE Finish(t, "ok", "", [text |-> text])

\* a generate_text that swallows the remote failure and returns an empty text
GenerateTextCreate_Swallow(t) ==
    /\ pc[t] = "gt_create"
    /\ \/ /\ invocation' = [invocation EXCEPT ![t].replies =
                              Append(@, [stage |-> frame[t].stage, ok |-> FALSE,
                                         text |-> None])]
          /\ AfterGenerateText(t, <<>>)
       \/ \E text \in Replies(frame[t].stage) :
            /\ invocation' = [invocation EXCEPT ![t].replies =
                                Append(@, [stage |-> frame[t].stage, ok |-> TRUE,
                                           text |-> text])]
            /\ AfterGenerateText(t, text)
    /\ UNCHANGED <<client, environ, db, chats, system_prompts, session_state,
                   widgets, constructed, history, handed, endpoint, launcher, reruns>>

\* lines 60-73: the remote call; its failure is printed and raised again,
\* its first completion's text (which may be absent) is returned
GenerateTextCreate(t) ==
    /\ pc[t] = "gt_create"
    /\ \/ /\ invocation' = [invocation EXCEPT ![t].replies =
                              Append(@, [stage |-> frame[t].stage, ok |-> FALSE,
                                         text |-> None])]
          /\ Raise(t, "RemoteFailure")
       \/ \E text \in Replies(frame[t].stage) :
            /\ invocation' = [invocation EXCEPT ![t].replies =
                                Append(@, [stage |-> frame[t].stage, ok |-> TRUE,
                                           text |-> text])]
            /\ AfterGenerateText(t, text)
    /\ UNCHANGED <<client, environ, db, chats, system_prompts, session_state,
                   widgets, constructed, history, handed, endpoint, launcher, reruns>>

\* a caller calls generate_text(model, messages)
CallGenerateText(t, messages) ==
    /\ pc[t] = "idle"
    /\ reruns[t] < MaxCalls
    /\ reruns' = [reruns EXCEPT ![t] = @ + 1]
    /\ frame' = [frame EXCEPT ![t] =
                   [Frame0 EXCEPT !.top = "api", !.stage = "text",
                                  !.model = "gpt-4o-mini", !.request = messages]]
    /\ invocation' = [invocation EXCEPT ![t] =
                        [StartInvocation("generate_text", NoneId) EXCEPT
                           !.args = [messages |-> messages]]]
    /\ outcome' = [outcome EXCEPT ![t] = NoOutcome]
    /\ pc' = [pc EXCEPT ![t] = "gt_entry"]
    /\ UNCHANGED <<client, environ, db, chats, system_prompts, session_state,
                   widgets, constructed, history, handed, endpoint, launcher>>

-----------------------------------------------------------------------------
(* utils/openai_utils.py: parse_json and generate_json_custom_ai *)

\* the retry ceiling of line 140
MaxRetries == 5

\* the two Markdown fence markers line 137 removes: three backquotes followed
\* by json, and three backquotes
FenceJson == "<fence>json"
Fence == "<fence>"
FenceTokens == {FenceJson, Fence}
WhitespaceTokens == {"\n", " "}
JsonTokens == {"{\"a\":1}", "{}", "[]", "0", "false", "null"}

\* line 137: both markers replaced by nothing
IsNotFence(tok) == tok \notin FenceTokens
Clean(text) == SelectSeq(text, IsNotFence)

\* the tokens of a text that are not whitespace
IsNotWhitespace(tok) == tok \notin WhitespaceTokens
Stripped(content) == SelectSeq(content, IsNotWhitespace)

\* json.loads accepts the content: one JSON value, whitespace around it
ValidJson(content) ==
    /\ content # None
    /\ Len(Stripped(content)) = 1
    /\ Stripped(content)[1] \in JsonTokens

\* the Python value json.loads gives for a JSON value, by its repr
JsonLoads(tok) ==
    CASE tok = "{\"a\":1}" -> "{'a': 1}"
      [] tok = "{}" -> "{}"
      [] tok = "[]" -> "[]"
      [] tok = "0" -> "0"
      [] tok = "false" -> "False"
      [] tok = "null" -> "None"

\* lines 87-93: None for no content and for content json.loads rejects
parse_json(content) ==
    IF content = None THEN "None"
    ELSE IF ValidJson(content) THEN JsonLoads(Stripped(content)[1])
    ELSE "None"

\* `not parsed_response`: None, and every empty or zero value
NotParsed(parsed_response) == parsed_response \in {"None", "{}", "[]", "0", "False"}

\* a retry allowed once more than the ceiling
RetryAllowed_OneMore(retry_count) == retry_count <= MaxRetries

\* line 140: `retry_count < 5`
RetryAllowed(retry_count) == retry_count < MaxRetries

\* a lookup that falls back on the first prompt of the list
GenerateJsonEnter_FirstPrompt(t) ==
    /\ pc[t] = "gj_entry"
    /\ LET found == FindPrompt(system_prompts, frame[t].prompt_id)
           prompt == IF found = NoPrompt THEN system_prompts[1] ELSE found
       IN /\ frame' = [frame EXCEPT
                     ![t].stage = "json",
                     ![t].model = prompt.model,
                     ![t].request = Request(prompt, frame[t].message)]
          /\ pc' = [pc EXCEPT ![t] = "gt_entry"]
          /\ UNCHANGED outcome
    /\ UNCHANGED <<client, environ, db, chats, system_prompts, session_state,
                   widgets, constructed, invocation, history, handed, endpoint, launcher, reruns>>

\* lines 120-133: find the system prompt, build the two messages and call
\* generate_text; each retry enters here again
GenerateJsonEnter(t) ==
    /\ pc[t] = "gj_entry"
    /\ LET prompt == FindPrompt(system_prompts, frame[t].prompt_id)
       IN IF prompt = NoPrompt
          THEN Raise(t, "System prompt not found")
          ELSE /\ frame' = [frame EXCEPT
                     ![t].stage = "json",
                     ![t].model = prompt.model,
                     ![t].request = Request(prompt, frame[t].message)]
               /\ pc' = [pc EXCEPT ![t] = "gt_entry"]
               /\ UNCHANGED outcome
    /\ UNCHANGED <<client, environ, db, chats, system_prompts, session_state,
                   widgets, constructed, invocation, history, handed, endpoint, launcher, reruns>>

\* a parse step that retries on a missing text as well
GenerateJsonParse_RetryNoText(t) ==
    /\ pc[t] = "gj_parse"
    /\ LET text == frame[t].response_text
           parsed_response == IF Truthy(text) THEN parse_json(Clean(text)) ELSE "None"
       IN IF NotParsed(parsed_response) /\ RetryAllowed(frame[t].retry_count)
          THEN /\ frame' = [frame EXCEPT ![t].retry_count = @ + 1,
                                         ![t].response_text = None]
               /\ pc' = [pc EXCEPT ![t] = "gj_entry"]
               /\ UNCHANGED outcome
          ELSE IF NotParsed(parsed_response)
          THEN Raise(t, "Exceeded retry attempts")
          ELSE Finish(t, "ok", "", [output |-> parsed_response, model |-> frame[t].model])
    /\ UNCHANGED <<client, environ, db, chats, system_prompts, session_state,
                   widgets, constructed, invocation, history, handed, endpoint, launcher, reruns>>

\* lines 136-154: no text fails at once; a text is cleaned and parsed; a
\* parse that gives nothing is retried while retries are left, and fails
\* after them; else the parsed value is returned
GenerateJsonParse(t) ==
    /\ pc[t] = "gj_parse"
    /\ LET text == frame[t].response_text
           parsed_response == parse_json(Clean(text))
       IN IF ~Truthy(text)
          THEN Raise(t, "No text in response")
          ELSE IF NotParsed(parsed_response) /\ RetryAllowed(frame[t].retry_count)
          THEN /\ frame' = [frame EXCEPT ![t].retry_count = @ + 1,
                                         ![t].response_text = None]
               /\ pc' = [pc EXCEPT ![t] = "gj_entry"]
               /\ UNCHANGED outcome
          ELSE IF NotParsed(parsed_response)
          THEN Raise(t, "Exceeded retry attempts")
          ELSE Finish(t, "ok", "", [output |-> parsed_response, model |-> frame[t].model])
    /\ UNCHANGED <<client, environ, db, chats, system_prompts, session_state,
                   widgets, constructed, invocation, history, handed, endpoint, launcher, reruns>>

\* a caller calls generate_json_custom_ai(message, prompt_id, system_prompts,
\* retry_count), retry_count being 0 by default
CallGenerateJson(t, prompt_id, retry_count) ==
    /\ pc[t] = "idle"
    /\ reruns[t] < MaxCalls
    /\ reruns' = [reruns EXCEPT ![t] = @ + 1]
    /\ frame' = [frame EXCEPT ![t] =
                   [Frame0 EXCEPT !.top = "api", !.prompt_id = prompt_id,
                                  !.message = <<"Give me the offer as JSON">>,
                                  !.retry_count = retry_count]]
    /\ invocation' = [invocation EXCEPT ![t] =
                        [StartInvocation("generate_json_custom_ai", NoneId) EXCEPT
                           !.args = [prompt_id |-> prompt_id,
                                     retry_count |-> retry_count]]]
    /\ outcome' = [outcome EXCEPT ![t] = NoOutcome]
    /\ pc' = [pc EXCEPT ![t] = "gj_entry"]
    /\ UNCHANGED <<client, environ, db, chats, system_prompts, session_state,
                   widgets, constructed, history, handed, endpoint, launcher>>

-----------------------------------------------------------------------------
(* meta_framework.py: MetaChat.process_chat *)

\* the fetch without the check of its result
ProcessChatFetch_Unchecked(t) ==
    /\ pc[t] = "pc_fetch"
    /\ frame' = [frame EXCEPT ![t].messages = fetch_chat(db, chats, frame[t].chat_id)]
    /\ pc' = [pc EXCEPT ![t] = "pc_parse"]
    /\ UNCHANGED <<client, environ, db, chats, system_prompts, session_state,
                   widgets, outcome, constructed, invocation, history, handed, endpoint, launcher, reruns>>

\* lines 66-68: fetch the transcript, fail if there is none
ProcessChatFetch(t) ==
    /\ pc[t] = "pc_fetch"
    /\ LET messages == fetch_chat(db, chats, frame[t].chat_id)
       IN IF messages = <<>>
          THEN Raise(t, "Chat not found")
          ELSE /\ frame' = [frame EXCEPT ![t].messages = messages]
               /\ pc' = [pc EXCEPT ![t] = "pc_parse"]
               /\ UNCHANGED outcome
    /\ UNCHANGED <<client, environ, db, chats, system_prompts, session_state,
                   widgets, constructed, invocation, history, handed, endpoint, launcher, reruns>>

\* `if not last_user_message`
NoUserMessage(last_user_message) == ~Truthy(last_user_message)

\* lines 71-86 and 115-126: render the transcript, find the last user
\* message, then build the request of _get_manager_advice
ProcessChatParse(t) ==
    /\ pc[t] = "pc_parse"
    /\ LET formatted_chat == parse_chat(db, chats, frame[t].chat_id,
                                        frame[t].user_role, frame[t].assistant_role)
           last_user_message == LastUserMessage(frame[t].messages)
           prompt == FindPrompt(system_prompts, 1)
       IN IF ~Truthy(formatted_chat)
          THEN Raise(t, "Failed to parse chat")
          ELSE IF NoUserMessage(last_user_message)
          THEN Raise(t, "No user message found in the chat")
          ELSE IF prompt = NoPrompt
          THEN Raise(t, "Sales manager prompt not found")
          ELSE /\ frame' = [frame EXCEPT
                     ![t].formatted_chat = formatted_chat,
                     ![t].last_user_message = last_user_message,
                     ![t].stage = "advice",
                     ![t].model = prompt.model,
                     ![t].request = Request(prompt, ManagerPrompt(formatted_chat))]
               /\ pc' = [pc EXCEPT ![t] = "gt_entry"]
               /\ UNCHANGED outcome
    /\ UNCHANGED <<client, environ, db, chats, system_prompts, session_state,
                   widgets, constructed, invocation, history, handed, endpoint, launcher, reruns>>

\* a bundle with the reply and the advice in each other's place
Bundle_Swapped(response, meta_insights, chat_id) ==
    [response |-> meta_insights, meta_insights |-> response, chat_id |-> chat_id]

\* the bundle process_chat returns
Bundle(response, meta_insights, chat_id) ==
    [response |-> response, meta_insights |-> meta_insights, chat_id |-> chat_id]

\* lines 96-102: store the reply as an assistant message and return the
\* bundle; the UI then keeps the advice under the active session id (lines
\* 180 and 244) and the script run ends
ProcessChatPersist(t) ==
    /\ pc[t] = "pc_persist"
    /\ db' = add_message(db, frame[t].chat_id, "assistant", frame[t].enhanced_response)
    /\ history' = [history EXCEPT ![frame[t].chat_id] =
                     Append(@, [writer |-> t, turn |-> reruns[t], role |-> "assistant"])]
    /\ invocation' = [invocation EXCEPT ![t].writes =
                        Append(@, [chat_id |-> frame[t].chat_id, role |-> "assistant",
                                   content |-> frame[t].enhanced_response,
                                   replies |-> Len(invocation[t].replies)])]
    /\ Finish(t, "ok", "",
              Bundle(frame[t].enhanced_response, frame[t].manager_advice,
                     frame[t].chat_id))
    /\ IF frame[t].top = "ui"
       THEN session_state' = [session_state EXCEPT ![t].manager_insights =
                (session_state[t].active_chat_id :> frame[t].manager_advice) @@ @]
       ELSE UNCHANGED session_state
    /\ UNCHANGED <<client, environ, chats, system_prompts, widgets, constructed,
                   handed, endpoint, launcher, reruns>>

\* a caller of the library calls process_chat(chat_id) with the default roles
CallProcessChat(t, chat_id) ==
    /\ pc[t] = "idle"
    /\ reruns[t] < MaxCalls
    /\ reruns' = [reruns EXCEPT ![t] = @ + 1]
    /\ frame' = [frame EXCEPT ![t] =
                   [Frame0 EXCEPT !.top = "api", !.chat_id = chat_id,
                                  !.user_role = DefaultUserRole,
                                  !.assistant_role = DefaultAssistantRole]]
    /\ invocation' = [invocation EXCEPT ![t] = StartInvocation("process_chat", chat_id)]
    /\ outcome' = [outcome EXCEPT ![t] = NoOutcome]
    /\ pc' = [pc EXCEPT ![t] = "pc_fetch"]
    /\ UNCHANGED <<client, environ, db, chats, system_prompts, session_state,
                   widgets, constructed, history, handed, endpoint, launcher>>

-----------------------------------------------------------------------------
(* meta_framework.py: MetaChat.add_system_prompt *)

\* the prompts a caller registers: one under a built-in id, two under new ids
NewPrompts ==
    { [prompt_id |-> 1, name |-> "Second Manager",
       message |-> <<"You are another sales manager ...">>, model |-> "gpt-4o"],
      [prompt_id |-> 3, name |-> "Closer",
       message |-> <<"You close the deal ...">>, model |-> "gpt-4o"],
      [prompt_id |-> 4, name |-> "Greeter",
       message |-> <<"You greet the customer ...">>, model |-> "gpt-4o-mini"] }

\* `existing`: the registry holds an entry with that id
Existing(prompts, prompt_id) == FindPrompt(prompts, prompt_id) # NoPrompt

\* the ghost record of an add_system_prompt call
AddInvocation(prompt_id, name, message, model) ==
    [StartInvocation("add_system_prompt", NoneId) EXCEPT
       !.args = [prompt_id |-> prompt_id, name |-> name,
                 message |-> message, model |-> model]]

\* an add_system_prompt that appends without looking for the id
AddSystemPrompt_NoCheck(t, prompt_id, name, message, model) ==
    /\ pc[t] = "idle"
    /\ reruns[t] < MaxCalls
    /\ reruns' = [reruns EXCEPT ![t] = @ + 1]
    /\ invocation' = [invocation EXCEPT ![t] =
                        AddInvocation(prompt_id, name, message, model)]
    /\ system_prompts' = Append(system_prompts,
                                [id |-> prompt_id, name |-> name,
                                 message |-> message, model |-> model])
    /\ outcome' = [outcome EXCEPT ![t] =
                     [op |-> "add_system_prompt", status |-> "ok",
                      error |-> "", value |-> <<>>]]
    /\ UNCHANGED <<client, environ, db, chats, session_state, widgets, pc, frame,
                   constructed, history, handed, endpoint, launcher>>

\* an add_system_prompt that puts the new entry in the place of the one that
\* has the id
AddSystemPrompt_Replace(t, prompt_id, name, message, model) ==
    /\ pc[t] = "idle"
    /\ reruns[t] < MaxCalls
    /\ reruns' = [reruns EXCEPT ![t] = @ + 1]
    /\ invocation' = [invocation EXCEPT ![t] =
                        AddInvocation(prompt_id, name, message, model)]
    /\ LET entry == [id |-> prompt_id, name |-> name,
                     message |-> message, model |-> model]
       IN system_prompts' =
            IF Existing(system_prompts, prompt_id)
            THEN [i \in 1..Len(system_prompts) |->
                    IF system_prompts[i].id = prompt_id THEN entry
                    ELSE system_prompts[i]]
            ELSE Append(system_prompts, entry)
    /\ outcome' = [outcome EXCEPT ![t] =
                     [op |-> "add_system_prompt", status |-> "ok",
                      error |-> "", value |-> <<>>]]
    /\ UNCHANGED <<client, environ, db, chats, session_state, widgets, pc, frame,
                   constructed, history, handed, endpoint, launcher>>

\* lines 187-197: fail if an entry has the id, else append the new entry
AddSystemPrompt(t, prompt_id, name, message, model) ==
    /\ pc[t] = "idle"
    /\ reruns[t] < MaxCalls
    /\ reruns' = [reruns EXCEPT ![t] = @ + 1]
    /\ invocation' = [invocation EXCEPT ![t] =
                        AddInvocation(prompt_id, name, message, model)]
    /\ IF Existing(system_prompts, prompt_id)
       THEN /\ outcome' = [outcome EXCEPT ![t] =
                             [op |-> "add_system_prompt", status |-> "error",
                              error |-> "System prompt already exists",
                              value |-> <<>>]]
            /\ UNCHANGED system_prompts
       ELSE /\ system_prompts' = Append(system_prompts,
                                        [id |-> prompt_id, name |-> name,
                                         message |-> message, model |-> model])
            /\ outcome' = [outcome EXCEPT ![t] =
                             [op |-> "add_system_prompt", status |-> "ok",
                              error |-> "", value |-> <<>>]]
    /\ UNCHANGED <<client, environ, db, chats, session_state, widgets, pc, frame,
                   constructed, history, handed, endpoint, launcher>>

-----------------------------------------------------------------------------
(* The core called directly, by one caller at a time, on any stored
   transcript *)

SessionState0 ==
    [ active_chat_id |-> NoneId, manager_insights |-> <<>>,
      api_key_verified |-> FALSE,
      user_role |-> DefaultUserRole, assistant_role |-> DefaultAssistantRole ]

Widgets0 == [ api_key |-> "" ]

Caller == "b1"

InitCommon ==
    /\ client = NoClient
    /\ system_prompts = BuiltinPrompts
    /\ session_state = [t \in Threads |-> SessionState0]
    /\ widgets = [t \in Threads |-> Widgets0]
    /\ pc = [t \in Threads |-> "idle"]
    /\ frame = [t \in Threads |-> Frame0]
    /\ outcome = [t \in Threads |-> NoOutcome]
    /\ constructed = 0
    /\ invocation = [t \in Threads |-> Invocation0]
    /\ handed = {}
    /\ reruns = [t \in Threads |-> 0]

\* the exit code of a process that has not exited
NotExited == -1

\* the launcher is not what these specifications run
LauncherAtRest ==
    [ pc |-> "none", argv |-> "", ui |-> "", data_dir |-> "", key_set |-> FALSE,
      ui_file |-> FALSE, which |-> FALSE, run |-> "", events |-> <<>>,
      exit_code |-> NotExited ]

InitCore ==
    /\ InitCommon
    /\ launcher = LauncherAtRest
    /\ endpoint = AnyEndpoint
    /\ environ \in {NoKey, "sk-A"}
    /\ chats = <<"c1">>
    /\ \E transcript \in SeqsUpTo(Messages, MaxLen) :
         db = [c \in ChatIds |-> IF c = "c1" THEN transcript ELSE <<>>]
    /\ history = [c \in ChatIds |->
                    [i \in 1..Len(db[c]) |->
                       [writer |-> "init", turn |-> 0, role |-> db[c][i].role]]]

NextCore ==
    \/ \E chat_id \in {"c1", UnknownId} : CallProcessChat(Caller, chat_id)
    \/ \E p \in NewPrompts :
          AddSystemPrompt(Caller, p.prompt_id, p.name, p.message, p.model)
    \/ ProcessChatFetch(Caller)
    \/ ProcessChatParse(Caller)
    \/ GenerateTextEnter(Caller)
    \/ GetClientInit(Caller)
    \/ GetClientReturn(Caller)
    \/ GenerateTextCreate(Caller)
    \/ ProcessChatPersist(Caller)

SpecCore == InitCore /\ [][NextCore]_vars

-----------------------------------------------------------------------------
(* Claims about process_chat, under SpecCore *)

\* the caller's process_chat has ended
CoreEnded ==
    /\ pc[Caller] = "idle"
    /\ invocation[Caller].op = "process_chat"
    /\ outcome[Caller].op = "process_chat"

CoreFailed == CoreEnded /\ outcome[Caller].status = "error"
CoreSucceeded == CoreEnded /\ outcome[Caller].status = "ok"

\* the transcript process_chat was called on
EntryTranscript ==
    fetch_chat(invocation[Caller].entry, chats, invocation[Caller].chat_id)

\* both generation calls of the invocation have returned a text
BothCallsSucceeded(replies, n) ==
    /\ n = 2
    /\ Len(replies) >= 2
    /\ replies[1].stage = "advice" /\ replies[1].ok
    /\ replies[2].stage = "enhance" /\ replies[2].ok

\* C2: a failing process_chat leaves the store as it was on entry; add_message
\* is invoked at most once per invocation, and only after both the advice
\* call and the enhancement call have returned successfully
C2_FailureLeavesTranscript ==
    /\ CoreFailed => (db = invocation[Caller].entry /\ invocation[Caller].writes = <<>>)
    /\ Len(invocation[Caller].writes) <= 1
    /\ \A i \in 1..Len(invocation[Caller].writes) :
         BothCallsSucceeded(invocation[Caller].replies, invocation[Caller].writes[i].replies)

\* the enhancement call raised after the advice call had succeeded, on a
\* stored transcript, and the invocation failed
C2_Witness ==
    /\ CoreFailed
    /\ outcome[Caller].error = "RemoteFailure"
    /\ Len(invocation[Caller].replies) = 2
    /\ EntryTranscript # <<>>

\* C3: a successful process_chat appends exactly one message, last, with role
\* assistant and the enhancement call's text, changes nothing else, and
\* returns response = that text, meta_insights = the advice call's text,
\* chat_id = the id given
C3_SuccessAppendsReply ==
    CoreSucceeded =>
        LET c == invocation[Caller].chat_id
            advice == invocation[Caller].replies[1].text
            reply == invocation[Caller].replies[2].text
        IN /\ Len(invocation[Caller].replies) = 2
           /\ c \in ChatIds
           /\ db[c] = Append(invocation[Caller].entry[c], Msg("assistant", reply))
           /\ \A d \in ChatIds \ {c} : db[d] = invocation[Caller].entry[d]
           /\ outcome[Caller].value.response = reply
           /\ outcome[Caller].value.meta_insights = advice
           /\ outcome[Caller].value.chat_id = c
           /\ invocation[Caller].calls[1].stage = "advice"
           /\ invocation[Caller].calls[2].stage = "enhance"

\* a call on a two-message transcript succeeded with different advice and reply
C3_Witness ==
    /\ CoreSucceeded
    /\ Len(EntryTranscript) >= 2
    /\ Truthy(invocation[Caller].replies[1].text)
    /\ Truthy(invocation[Caller].replies[2].text)
    /\ invocation[Caller].replies[1].text # invocation[Caller].replies[2].text

\* C4: on a session with no stored message, or an unknown one, process_chat
\* fails with the not-found error, and makes no generation call and no write
C4_EmptyChatNotFound ==
    (invocation[Caller].op = "process_chat" /\ EntryTranscript = <<>>) =>
        /\ invocation[Caller].calls = <<>>
        /\ invocation[Caller].replies = <<>>
        /\ invocation[Caller].writes = <<>>
        /\ db = invocation[Caller].entry
        /\ pc[Caller] \in {"pc_fetch", "idle"}
        /\ pc[Caller] = "idle" =>
             /\ outcome[Caller].status = "error"
             /\ outcome[Caller].error = "Chat not found"

\* the call on the existing session c1, which holds no message, has failed
C4_Witness ==
    /\ CoreFailed
    /\ invocation[Caller].chat_id = "c1"
    /\ "c1" \in Range(chats)
    /\ EntryTranscript = <<>>
    /\ outcome[Caller].error = "Chat not found"

\* text holds sub from position i on
EmbedsAt(text, sub, i) ==
    /\ Len(text) >= i + Len(sub) - 1
    /\ SubSeq(text, i, i + Len(sub) - 1) = sub

\* C5: the two generation calls of an invocation are sequential: a call is
\* issued only when every earlier one has returned; the enhancement call is
\* the second, issued after the advice call has returned a text, and its
\* request holds that text right after the template's opening; after a
\* failed advice call there is no enhancement call
C5_CallsSequential ==
    LET calls == invocation[Caller].calls
        replies == invocation[Caller].replies
    IN invocation[Caller].op = "process_chat" =>
        /\ Len(calls) <= 2
        /\ Len(calls) <= Len(replies) + 1
        /\ \A i \in 1..Len(calls) :
             /\ calls[i].stage = (IF i = 1 THEN "advice" ELSE "enhance")
             /\ i = 2 =>
                  /\ replies[1].stage = "advice"
                  /\ replies[1].ok
                  /\ calls[2].request[2].role = "user"
                  /\ EmbedsAt(calls[2].request[2].content, Str(replies[1].text), 2)
        /\ (Len(replies) >= 1 /\ ~replies[1].ok) => Len(calls) = 1

\* the enhancement call has been issued on advice that is a text
C5_Witness ==
    /\ invocation[Caller].op = "process_chat"
    /\ Len(invocation[Caller].calls) = 2
    /\ Truthy(invocation[Caller].replies[1].text)

\* the transcript holds a message whose role is user
HasUserMessage(msgs) == \E i \in 1..Len(msgs) : msgs[i].role = "user"

\* C6: process_chat fails with 'No user message found' exactly when the
\* transcript (one that is stored and renders to something) holds no message
\* with role user, whatever the content of the user messages
C6_NoUserMessageExactly ==
    (CoreEnded /\ EntryTranscript # <<>>
       /\ Truthy(RenderAll(EntryTranscript, DefaultUserRole, DefaultAssistantRole))) =>
        ( (outcome[Caller].status = "error"
             /\ outcome[Caller].error = "No user message found in the chat")
          <=> ~HasUserMessage(EntryTranscript) )

\* C13: add_system_prompt with an id the registry holds fails with the
\* already-exists error and leaves the registry as it is; with a new id it
\* appends one entry {id, name, message, model} at the end and leaves every
\* entry that was there as it was, in its place
C13_DuplicateIdRejected ==
    [][ \A t \in Threads :
          (reruns'[t] # reruns[t] /\ invocation'[t].op = "add_system_prompt") =>
              LET a == invocation'[t].args
                  n == Len(system_prompts)
              IN IF \E i \in 1..n : system_prompts[i].id = a.prompt_id
                 THEN /\ outcome'[t].status = "error"
                      /\ outcome'[t].error = "System prompt already exists"
                      /\ system_prompts' = system_prompts
                 ELSE /\ outcome'[t].status = "ok"
                      /\ Len(system_prompts') = n + 1
                      /\ \A i \in 1..n : system_prompts'[i] = system_prompts[i]
                      /\ system_prompts'[n + 1] =
                           [id |-> a.prompt_id, name |-> a.name,
                            message |-> a.message, model |-> a.model] ]_vars

\* a prompt was added under a new id, and adding that id again has failed
C13_Witness ==
    /\ invocation[Caller].op = "add_system_prompt"
    /\ outcome[Caller].status = "error"
    /\ outcome[Caller].error = "System prompt already exists"
    /\ Len(system_prompts) = Len(BuiltinPrompts) + 1
    /\ invocation[Caller].args.prompt_id = system_prompts[Len(system_prompts)].id

\* the ids of the registry are pairwise distinct
DistinctIds(prompts) ==
    \A i, j \in 1..Len(prompts) : prompts[i].id = prompts[j].id => i = j

\* C22: whatever add_system_prompt calls were made, successful or failing,
\* the ids of the registry are pairwise distinct, the two built-in entries
\* are there as they were built, no process_chat has failed for want of
\* the manager prompt or of the enhanced-assistant prompt, and no step makes
\* the registry shorter or changes an entry
C22_BuiltinsStay ==
    /\ [](/\ DistinctIds(system_prompts)
          /\ Len(system_prompts) >= Len(BuiltinPrompts)
          /\ \A i \in 1..Len(BuiltinPrompts) : system_prompts[i] = BuiltinPrompts[i]
          /\ \A t \in Threads :
               outcome[t].error \notin {"Sales manager prompt not found",
                                        "Enhanced assistant prompt not found"})
    /\ [][ /\ Len(system_prompts') >= Len(system_prompts)
           /\ \A i \in 1..Len(system_prompts) :
                system_prompts'[i] = system_prompts[i] ]_vars

\* a prompt was added to the registry and a process_chat after it got both
\* of its prompts and succeeded
C22_Witness ==
    /\ CoreSucceeded
    /\ Len(system_prompts) = Len(BuiltinPrompts) + 1
    /\ Len(invocation[Caller].calls) = 2

\* a generation call of the invocation returned, without raising, a text
\* that is absent or empty
SomeReplyWithoutText ==
    \E i \in 1..Len(invocation[Caller].replies) :
        /\ invocation[Caller].replies[i].ok
        /\ invocation[Caller].replies[i].text \in {None, <<>>}

\* C23: process_chat does not look at the generated texts: an advice call
\* or an enhancement call that returns an absent or empty text does not make
\* it fail; the pipeline goes on (an absent advice is followed by the
\* enhancement call), the assistant message stored holds the enhancement
\* text as it came, absent or empty, and process_chat returns normally
C23_TextsNotValidated ==
    LET calls == invocation[Caller].calls
        replies == invocation[Caller].replies
    IN (invocation[Caller].op = "process_chat" /\ SomeReplyWithoutText) =>
        /\ (pc[Caller] = "idle" /\ outcome[Caller].status = "error") =>
             (Len(replies) = 2 /\ ~replies[2].ok
                /\ outcome[Caller].error = "RemoteFailure")
        /\ (Len(replies) >= 1 /\ pc[Caller] = "idle") => Len(calls) = 2
        /\ (pc[Caller] = "idle" /\ Len(replies) = 2 /\ replies[2].ok) =>
             LET c == invocation[Caller].chat_id
             IN /\ outcome[Caller].status = "ok"
                /\ db[c][Len(db[c])].role = "assistant"
                /\ db[c][Len(db[c])].content = replies[2].text
                /\ Len(db[c]) = Len(invocation[Caller].entry[c]) + 1

\* the advice came back absent and the reply empty, and process_chat
\* returned normally after storing the empty reply
C23_Witness ==
    /\ CoreSucceeded
    /\ invocation[Caller].replies[1].text = None
    /\ invocation[Caller].replies[2].text = <<>>
    /\ db["c1"][Len(db["c1"])] = Msg("assistant", <<>>)

-----------------------------------------------------------------------------
(* ui/streamlit_app.py: one run of the script in the thread of a browser
   session.  A run is started by one interaction: a key typed into the
   sidebar, the New Chat button, a choice in the chat selector, a message
   sent from the chat input, or any other widget (the toggle, a role
   label). *)

\* runs that have got the New Chat click and not yet created the session
PendingNewChats ==
    Cardinality({ t \in Threads : frame[t].trigger = "new_chat"
                                  /\ pc[t] \in {"ui_key", "gc_check", "gc_init",
                                                "gc_return", "ui_chats"} })

\* the interactions open to the user of browser session b
UiInputs(b) ==
    LET base == [trigger |-> "other", api_key |-> widgets[b].api_key,
                 choice |-> NoneId, prompt |-> None]
    IN {base}
       \cup { [base EXCEPT !.trigger = "key", !.api_key = k] : k \in KeyInputs }
       \cup { [base EXCEPT !.trigger = "new_chat"] :
                x \in { y \in {1} : Len(chats) + PendingNewChats < MaxChats } }
       \cup { [base EXCEPT !.trigger = "select", !.choice = c] : c \in Range(chats) }
       \cup { [base EXCEPT !.trigger = "prompt", !.prompt = p] :
                p \in { q \in UserPrompts : session_state[b].active_chat_id # NoneId } }

RECURSIVE SumOver(_, _)
SumOver(f, S) ==
    IF S = {} THEN 0
    ELSE LET x == CHOOSE y \in S : TRUE IN f[x] + SumOver(f, S \ {x})

\* the script starts over with the widget values of the interaction
UiRerun(b, input) ==
    /\ pc[b] = "idle"
    /\ SumOver(reruns, Threads) < MaxReruns
    /\ reruns' = [reruns EXCEPT ![b] = @ + 1]
    /\ widgets' = [widgets EXCEPT ![b].api_key = input.api_key]
    /\ frame' = [frame EXCEPT ![b] =
                   [Frame0 EXCEPT !.top = "ui", !.trigger = input.trigger,
                                  !.choice = input.choice, !.prompt = input.prompt]]
    /\ pc' = [pc EXCEPT ![b] = "ui_key"]
    /\ UNCHANGED <<client, environ, db, chats, system_prompts, session_state,
                   outcome, constructed, invocation, history, handed, endpoint, launcher>>

\* lines 65-76: a key in the input is written to the environment and, unless
\* this browser session has verified one already, get_client is called
UiSidebarKey(b) ==
    /\ pc[b] = "ui_key"
    /\ IF widgets[b].api_key # ""
       THEN /\ environ' = widgets[b].api_key
            /\ IF ~session_state[b].api_key_verified
               THEN /\ pc' = [pc EXCEPT ![b] = "gc_check"]
                    /\ frame' = [frame EXCEPT ![b].gc_caller = "sidebar",
                                              ![b].before = handed]
               ELSE /\ pc' = [pc EXCEPT ![b] = "ui_chats"]
                    /\ UNCHANGED frame
       ELSE /\ pc' = [pc EXCEPT ![b] = "ui_chats"]
            /\ UNCHANGED <<environ, frame>>
    /\ UNCHANGED <<client, db, chats, system_prompts, session_state, widgets,
                   outcome, constructed, invocation, history, handed, endpoint, launcher, reruns>>

\* the position of x in the list s, 0 when x is not in it
IndexOf(s, x) ==
    IF x \in Range(s) THEN CHOOSE i \in 1..Len(s) : s[i] = x /\ \A j \in 1..(i - 1) : s[j] # x
    ELSE 0

\* lines 106-111: what the selector returns: the user's choice in the run the
\* choice started, else the option at `index`, the active session's place in
\* the list or the first place
SelectBox(chat_ids, active_chat_id, trigger, choice) ==
    IF trigger = "select" /\ choice \in Range(chat_ids) THEN choice
    ELSE IF active_chat_id \in Range(chat_ids)
         THEN chat_ids[IndexOf(chat_ids, active_chat_id)]
         ELSE chat_ids[1]

\* what lines 93-117 make of the active session id and the advice cache:
\* the New Chat button (with begin_chat giving a new id, or failing, which is
\* shown and passed over), then the selector over all sessions of the store
ChatManagement(b, created, keep_insights) ==
    LET new_chat_id == begin_chat(chats)
        chats1 == IF created THEN Append(chats, new_chat_id) ELSE chats
        active1 == IF created THEN new_chat_id ELSE session_state[b].active_chat_id
        insights1 == IF created /\ ~keep_insights THEN <<>>
                     ELSE session_state[b].manager_insights
        chat_ids == fetch_all(chats1)
        selected_chat == SelectBox(chat_ids, active1, frame[b].trigger, frame[b].choice)
        switch == chat_ids # <<>> /\ selected_chat # active1
    IN [ chats |-> chats1,
         active_chat_id |-> IF switch THEN selected_chat ELSE active1,
         manager_insights |-> IF switch /\ ~keep_insights THEN <<>> ELSE insights1 ]

\* a chat management that changes the active session and keeps the cache
UiChats_KeepInsights(b) ==
    /\ pc[b] = "ui_chats"
    /\ \E ok \in BOOLEAN :
         LET after == ChatManagement(b, frame[b].trigger = "new_chat" /\ ok, TRUE)
         IN /\ chats' = after.chats
            /\ session_state' = [session_state EXCEPT
                  ![b].active_chat_id = after.active_chat_id,
                  ![b].manager_insights = after.manager_insights]
    /\ pc' = [pc EXCEPT ![b] = "ui_main"]
    /\ UNCHANGED <<client, environ, db, system_prompts, widgets, frame, outcome,
                   constructed, invocation, history, handed, endpoint, launcher, reruns>>

\* lines 93-117: the New Chat button, then the selector over all sessions
UiChats(b) ==
    /\ pc[b] = "ui_chats"
    /\ \E ok \in BOOLEAN :
         LET after == ChatManagement(b, frame[b].trigger = "new_chat" /\ ok, FALSE)
         IN /\ chats' = after.chats
            /\ session_state' = [session_state EXCEPT
                  ![b].active_chat_id = after.active_chat_id,
                  ![b].manager_insights = after.manager_insights]
    /\ pc' = [pc EXCEPT ![b] = "ui_main"]
    /\ UNCHANGED <<client, environ, db, system_prompts, widgets, frame, outcome,
                   constructed, invocation, history, handed, endpoint, launcher, reruns>>

\* a main panel that calls process_chat without storing the message first
UiMain_NotStored(b) ==
    /\ pc[b] = "ui_main"
    /\ LET active == session_state[b].active_chat_id
       IN IF active # NoneId /\ frame[b].trigger = "prompt" /\ Truthy(frame[b].prompt)
          THEN /\ frame' = [frame EXCEPT ![b].chat_id = active,
                                         ![b].user_role = session_state[b].user_role,
                                         ![b].assistant_role = session_state[b].assistant_role]
               /\ invocation' = [invocation EXCEPT ![b] =
                                   [StartInvocation("process_chat", active) EXCEPT
                                      !.insights = session_state[b].manager_insights]]
               /\ pc' = [pc EXCEPT ![b] = "pc_fetch"]
          ELSE /\ pc' = [pc EXCEPT ![b] = "idle"]
               /\ frame' = [frame EXCEPT ![b] = Frame0]
               /\ UNCHANGED invocation
    /\ UNCHANGED <<client, environ, db, chats, system_prompts, session_state, widgets,
                   outcome, constructed, history, handed, endpoint, launcher, reruns>>

\* a main panel that empties the advice cache when a turn starts
UiMain_ClearsCache(b) ==
    /\ pc[b] = "ui_main"
    /\ LET active == session_state[b].active_chat_id
       IN IF active # NoneId /\ frame[b].trigger = "prompt" /\ Truthy(frame[b].prompt)
          THEN /\ db' = add_message(db, active, "user", frame[b].prompt)
               /\ history' = [history EXCEPT ![active] =
                                Append(@, [writer |-> b, turn |-> reruns[b],
                                           role |-> "user"])]
               /\ frame' = [frame EXCEPT ![b].chat_id = active,
                                         ![b].user_role = session_state[b].user_role,
                                         ![b].assistant_role = session_state[b].assistant_role]
               /\ invocation' = [invocation EXCEPT ![b] =
                                   [StartInvocation("process_chat", active) EXCEPT
                                      !.entry = db',
                                      !.insights = session_state[b].manager_insights]]
               /\ session_state' = [session_state EXCEPT ![b].manager_insights = <<>>]
               /\ pc' = [pc EXCEPT ![b] = "pc_fetch"]
          ELSE /\ pc' = [pc EXCEPT ![b] = "idle"]
               /\ frame' = [frame EXCEPT ![b] = Frame0]
               /\ UNCHANGED <<db, history, invocation, session_state>>
    /\ UNCHANGED <<client, environ, chats, system_prompts, widgets,
                   outcome, constructed, handed, endpoint, launcher, reruns>>

\* lines 128-254: the main panel.  With an active session and a message from
\* the chat input (lines 155-177 and 219-241, the same in both layouts) the
\* message is stored as a user message and process_chat is called on the
\* active session with the role labels of the browser session; otherwise
\* the run ends
UiMain(b) ==
    /\ pc[b] = "ui_main"
    /\ LET active == session_state[b].active_chat_id
       IN IF active # NoneId /\ frame[b].trigger = "prompt" /\ Truthy(frame[b].prompt)
          THEN /\ db' = add_message(db, active, "user", frame[b].prompt)
               /\ history' = [history EXCEPT ![active] =
                                Append(@, [writer |-> b, turn |-> reruns[b],
                                           role |-> "user"])]
               /\ frame' = [frame EXCEPT ![b].chat_id = active,
                                         ![b].user_role = session_state[b].user_role,
                                         ![b].assistant_role = session_state[b].assistant_role]
               /\ invocation' = [invocation EXCEPT ![b] =
                                   [StartInvocation("process_chat", active) EXCEPT
                                      !.entry = db',
                                      !.insights = session_state[b].manager_insights]]
               /\ pc' = [pc EXCEPT ![b] = "pc_fetch"]
          ELSE /\ pc' = [pc EXCEPT ![b] = "idle"]
               /\ frame' = [frame EXCEPT ![b] = Frame0]
               /\ UNCHANGED <<db, history, invocation>>
    /\ UNCHANGED <<client, environ, chats, system_prompts, session_state, widgets,
                   outcome, constructed, handed, endpoint, launcher, reruns>>

-----------------------------------------------------------------------------
(* The application: the browser sessions run the script concurrently *)

Init ==
    /\ InitCommon
    /\ launcher = LauncherAtRest
    /\ endpoint = PlainEndpoint
    /\ environ \in {NoKey, "", "sk-B"}
    /\ chats = <<>>
    /\ db = [c \in ChatIds |-> <<>>]
    /\ history = [c \in ChatIds |-> <<>>]

Next ==
    \E b \in Threads :
        \/ \E input \in UiInputs(b) : UiRerun(b, input)
        \/ UiSidebarKey(b)
        \/ UiChats(b)
        \/ UiMain(b)
        \/ ProcessChatFetch(b)
        \/ ProcessChatParse(b)
        \/ GenerateTextEnter(b)
        \/ GetClientEnter(b)
        \/ GetClientInit(b)
        \/ GetClientReturn(b)
        \/ GenerateTextCreate(b)
        \/ ProcessChatPersist(b)

Spec == Init /\ [][Next]_vars

-----------------------------------------------------------------------------
(* Claims about the turns of the UI and the client handle, under Spec *)

\* thread b is inside process_chat
InProcessChat(b) ==
    pc[b] \in {"pc_fetch", "pc_parse", "gt_entry", "gc_init", "gc_return",
               "gt_create", "pc_persist"}
    /\ frame[b].gc_caller # "sidebar"

\* the places of the user message of the turn of message i in transcript c
TurnMessage(c, i) ==
    { j \in 1..(i - 1) : /\ history[c][j].role = "user"
                         /\ history[c][j].writer = history[c][i].writer
                         /\ history[c][j].turn = history[c][i].turn }

\* C7 as stated: over all turns, those of two browser sessions on one session
\* id included, the user message of a turn is stored before process_chat
\* starts, the reply is written after both generation calls succeed, and each
\* assistant message directly follows the user message it answers
C7_ReplyDirectlyFollows ==
    /\ \A b \in Threads : InProcessChat(b) =>
          \E j \in 1..Len(history[frame[b].chat_id]) :
              history[frame[b].chat_id][j] =
                  [writer |-> b, turn |-> reruns[b], role |-> "user"]
    /\ \A b \in Threads : \A i \in 1..Len(invocation[b].writes) :
          BothCallsSucceeded(invocation[b].replies, invocation[b].writes[i].replies)
    /\ \A c \in ChatIds : \A i \in 1..Len(history[c]) :
          history[c][i].role = "assistant" => (i - 1) \in TurnMessage(c, i)

\* C7, amended: the user message of a turn is stored before process_chat
\* starts; the reply is written after both generation calls succeed and after
\* the user message of its turn; and between the two lie only messages
\* written by other browser sessions, never one of the same browser session
C7_ReplyFollowsOwnTurn ==
    /\ \A b \in Threads : InProcessChat(b) =>
          \E j \in 1..Len(history[frame[b].chat_id]) :
              history[frame[b].chat_id][j] =
                  [writer |-> b, turn |-> reruns[b], role |-> "user"]
    /\ \A b \in Threads : \A i \in 1..Len(invocation[b].writes) :
          BothCallsSucceeded(invocation[b].replies, invocation[b].writes[i].replies)
    /\ \A c \in ChatIds : \A i \in 1..Len(history[c]) :
          history[c][i].role = "assistant" =>
              \E j \in TurnMessage(c, i) :
                  \A m \in (j + 1)..(i - 1) : history[c][m].writer # history[c][i].writer
    /\ \A c \in ChatIds :
          /\ Len(history[c]) = Len(db[c])
          /\ \A i \in 1..Len(db[c]) : history[c][i].role = db[c][i].role

\* two browser sessions have each completed a turn on the same session id
C7_Witness ==
    \E c \in ChatIds : \E i, j \in 1..Len(history[c]) :
        /\ history[c][i].role = "assistant"
        /\ history[c][j].role = "assistant"
        /\ history[c][i].writer # history[c][j].writer

\* the step in which the process_chat of a UI turn of b fails
TurnFails(b) ==
    /\ InProcessChat(b)
    /\ frame[b].top = "ui"
    /\ pc'[b] = "idle"
    /\ outcome'[b].status = "error"

\* C14 as stated: when process_chat fails in a UI turn, the script run ends
\* there with the error, the user message of the turn is the last message of
\* the session, no assistant message was appended, and the advice cache is
\* what it was before the turn
C14_FailedTurnKeepsUserMessageLast ==
    [][ \A b \in Threads : TurnFails(b) =>
          LET c == frame[b].chat_id
          IN /\ db' = db
             /\ invocation[b].writes = <<>>
             /\ Len(db[c]) >= 1
             /\ db[c][Len(db[c])] = Msg("user", frame[b].prompt)
             /\ history[c][Len(db[c])] =
                  [writer |-> b, turn |-> reruns[b], role |-> "user"]
             /\ session_state'[b].manager_insights = invocation[b].insights
             /\ session_state'[b].active_chat_id = c ]_vars

\* C14, amended: when process_chat fails in a UI turn, the script run ends
\* there with the error, the user message of the turn is still in the
\* transcript (nothing is rolled back) and is the last message this browser
\* session wrote to it, no assistant message was appended for the turn, and
\* the advice cache is what it was before the turn
C14_FailedTurnKeepsUserMessage ==
    [][ \A b \in Threads : TurnFails(b) =>
          LET c == frame[b].chat_id
          IN /\ db' = db
             /\ invocation[b].writes = <<>>
             /\ \E j \in 1..Len(db[c]) :
                  /\ db[c][j] = Msg("user", frame[b].prompt)
                  /\ history[c][j] = [writer |-> b, turn |-> reruns[b], role |-> "user"]
                  /\ \A m \in (j + 1)..Len(db[c]) : history[c][m].writer # b
             /\ session_state'[b].manager_insights = invocation[b].insights
             /\ session_state'[b].active_chat_id = c ]_vars

\* a turn has failed in a browser session that holds the advice of an
\* earlier turn: the transcript ends with the reply of that turn and the
\* unanswered user message
C14_Witness ==
    \E b \in Threads :
        /\ pc[b] = "idle"
        /\ outcome[b].op = "process_chat"
        /\ outcome[b].status = "error"
        /\ session_state[b].active_chat_id \in ChatIds
        /\ session_state[b].manager_insights # <<>>
        /\ LET c == session_state[b].active_chat_id
           IN /\ Len(db[c]) = 3
              /\ db[c][2].role = "assistant"
              /\ db[c][3].role = "user"
              /\ history[c][3].writer = b

\* C15: the New Chat action creates a session, makes it the active one and
\* empties the advice cache, and the selector of the same run does not
\* switch away from it; choosing in the selector a session other than the
\* active one makes it active and empties the cache; no other step of a
\* run changes the active session; and when the creation fails the active
\* session and the cache are what they were
C15_NewChatAndSelect ==
    [][ \A b \in Threads :
          /\ pc[b] # "ui_chats" =>
                session_state'[b].active_chat_id = session_state[b].active_chat_id
          /\ (pc[b] = "ui_chats" /\ pc'[b] # "ui_chats") =>
                LET clicked == frame[b].trigger = "new_chat"
                    chosen == frame[b].trigger = "select"
                IN /\ (clicked /\ chats' # chats) =>
                        /\ Len(chats') = Len(chats) + 1
                        /\ chats'[Len(chats')] \notin Range(chats)
                        /\ session_state'[b].active_chat_id = chats'[Len(chats')]
                        /\ session_state'[b].manager_insights = <<>>
                   /\ (chosen /\ frame[b].choice # session_state[b].active_chat_id) =>
                        /\ session_state'[b].active_chat_id = frame[b].choice
                        /\ session_state'[b].manager_insights = <<>>
                   /\ (clicked /\ chats' = chats) =>
                        /\ session_state'[b].active_chat_id =
                             session_state[b].active_chat_id
                        /\ session_state'[b].manager_insights =
                             session_state[b].manager_insights ]_vars

\* C20: when a script run of a browser session has ended, its advice cache
\* holds at most one entry, and that one under the active session id
C20_CacheOnlyForActive ==
    \A b \in Threads :
        pc[b] = "idle" =>
            /\ Cardinality(DOMAIN session_state[b].manager_insights) <= 1
            /\ DOMAIN session_state[b].manager_insights
                  \subseteq {session_state[b].active_chat_id}

\* a browser session holds the advice of a turn on its second session, the
\* advice of the turn on its first one being gone
C20_Witness ==
    \E b \in Threads :
        /\ pc[b] = "idle"
        /\ reruns[b] = 4
        /\ Len(chats) = 2
        /\ session_state[b].active_chat_id = chats[2]
        /\ DOMAIN session_state[b].manager_insights = {chats[2]}
        /\ \A c \in ChatIds : Len(db[c]) = 2

\* C21: a browser session with no active session, in a run started by
\* something other than New Chat or a choice in the selector, still has no
\* active session after the chat management of that run, whatever sessions
\* the store holds; the main panel then shows the placeholder and the run ends
C21_NoActiveUntilChosen ==
    [][ \A b \in Threads :
          (pc[b] = "ui_chats" /\ pc'[b] # "ui_chats"
             /\ frame[b].trigger \notin {"new_chat", "select"}
             /\ session_state[b].active_chat_id = NoneId) =>
              session_state'[b].active_chat_id = NoneId ]_vars

\* C8: the client constructor runs at most once in the life of the process
\* and every caller of get_client receives the same handle, over any
\* interleaving of the calls
C8_ConstructedOnce ==
    /\ constructed <= 1
    /\ Cardinality(handed) <= 1

\* C9: once get_client has succeeded, every later call returns that same
\* handle, whatever the credential has become, and no step replaces or
\* clears the handle
C9_HandleNeverReplaced ==
    [][ /\ client # NoClient => client' = client
        /\ \A t \in Threads :
             (pc[t] = "gc_return" /\ pc'[t] # "gc_return" /\ frame[t].before # {})
                 => client \in frame[t].before ]_vars

\* C10: get_client without a handle and without a credential (absent or
\* empty) fails with the 'API key not set' error and leaves the handle as it
\* is; with a credential it constructs the client from that credential,
\* stores it and goes on to return it
C10_MissingKeyLeavesHandleUnset ==
    [][ \A t \in Threads :
          (pc[t] = "gc_init" /\ pc'[t] # "gc_init") =>
              IF environ \in {NoKey, ""}
              THEN /\ client' = client
                   /\ constructed' = constructed
                   /\ handed' = handed
                   /\ frame[t].gc_caller = "generate_text" =>
                        /\ outcome'[t].status = "error"
                        /\ outcome'[t].error = "OpenAI API key not set"
              ELSE /\ client' # NoClient
                   /\ client'.key = environ
                   /\ constructed' = constructed + 1
                   /\ pc'[t] = "gc_return" ]_vars

\* a get_client call has failed for want of a credential, and the handle was
\* constructed later from the key then entered in the sidebar
C10_Witness ==
    \E t \in Threads :
        /\ outcome[t].status = "error"
        /\ outcome[t].error = "OpenAI API key not set"
        /\ client # NoClient
        /\ client.key \in KeyInputs
        /\ client \in handed

-----------------------------------------------------------------------------
(* generate_json_custom_ai called directly, by one caller *)

\* the prompt ids a caller asks for: one of the list, and one not in it
PromptIds == {1, 9}

InitJson ==
    /\ InitCommon
    /\ launcher = LauncherAtRest
    /\ endpoint = AnyEndpoint
    /\ environ \in {NoKey, "sk-A"}
    /\ chats = <<>>
    /\ db = [c \in ChatIds |-> <<>>]
    /\ history = [c \in ChatIds |-> <<>>]

\* the message lists a caller gives generate_text
MessageLists == { <<>>, << Msg("user", <<"hi">>) >> }

NextJson ==
    \/ \E prompt_id \in PromptIds : \E retry_count \in 0..MaxRetries :
          CallGenerateJson(Caller, prompt_id, retry_count)
    \/ \E messages \in MessageLists : CallGenerateText(Caller, messages)
    \/ GenerateJsonEnter(Caller)
    \/ GenerateTextEnter(Caller)
    \/ GetClientInit(Caller)
    \/ GetClientReturn(Caller)
    \/ GenerateTextCreate(Caller)
    \/ GenerateJsonParse(Caller)

SpecJson == InitJson /\ [][NextJson]_vars

\* the caller's generate_json_custom_ai has ended
JsonEnded ==
    /\ pc[Caller] = "idle"
    /\ invocation[Caller].op = "generate_json_custom_ai"
    /\ outcome[Caller].op = "generate_json_custom_ai"

\* every generation call of the invocation so far has returned a text that
\* is not empty and that json.loads rejects after the fences are taken out
AlwaysUnparsable ==
    /\ invocation[Caller].op = "generate_json_custom_ai"
    /\ invocation[Caller].args.retry_count = 0
    /\ Len(invocation[Caller].replies) >= 1
    /\ \A i \in 1..Len(invocation[Caller].replies) :
         /\ invocation[Caller].replies[i].ok
         /\ Truthy(invocation[Caller].replies[i].text)
         /\ ~ValidJson(Clean(invocation[Caller].replies[i].text))

\* C1 as stated: with a generation call that always returns unparsable text
\* the operation recurses until the retry count is 5 and then fails with
\* the exceeded-retry-attempts error, and never makes a 6th generation call
C1_NeverSixthCall ==
    AlwaysUnparsable =>
        /\ Len(invocation[Caller].calls) <= MaxRetries
        /\ JsonEnded =>
             /\ outcome[Caller].status = "error"
             /\ outcome[Caller].error = "Exceeded retry attempts"
             /\ invocation[Caller].calls[Len(invocation[Caller].calls)].retry_count
                  = MaxRetries

\* C1, amended: with such a generation call the operation recurses until the
\* retry count is 5 and then fails with the exceeded-retry-attempts error,
\* after 6 generation calls in all (the first and 5 retries), call i made
\* with retry count i - 1; it never makes a 7th
C1_SixCallsThenFails ==
    AlwaysUnparsable =>
        /\ Len(invocation[Caller].calls) <= MaxRetries + 1
        /\ \A i \in 1..Len(invocation[Caller].calls) :
             invocation[Caller].calls[i].retry_count = i - 1
        /\ JsonEnded =>
             /\ outcome[Caller].status = "error"
             /\ outcome[Caller].error = "Exceeded retry attempts"
             /\ Len(invocation[Caller].calls) = MaxRetries + 1
             /\ Len(invocation[Caller].replies) = MaxRetries + 1

\* the operation has failed after unparsable answers only
C1_Witness ==
    /\ JsonEnded
    /\ AlwaysUnparsable
    /\ outcome[Caller].error = "Exceeded retry attempts"

\* the first generation call of an invocation started with retry count 0
\* has returned a text that is one JSON value once the fences are taken out
FirstReplyValidJson ==
    /\ invocation[Caller].op = "generate_json_custom_ai"
    /\ invocation[Caller].args.retry_count = 0
    /\ Len(invocation[Caller].replies) >= 1
    /\ invocation[Caller].replies[1].ok
    /\ Truthy(invocation[Caller].replies[1].text)
    /\ ValidJson(Clean(invocation[Caller].replies[1].text))

\* C11: when the first generation call returns valid JSON (any JSON value:
\* an object, and also an empty object, an empty array, 0, false, null), the
\* operation makes that one generation call only, does not recurse, and
\* returns the parsed value as output, its retry count still 0
C11_ValidJsonOneCall ==
    FirstReplyValidJson =>
        /\ Len(invocation[Caller].calls) = 1
        /\ pc[Caller] \in {"gj_parse", "idle"}
        /\ frame[Caller].retry_count = 0
        /\ JsonEnded =>
             /\ outcome[Caller].status = "ok"
             /\ outcome[Caller].value.output =
                  JsonLoads(Stripped(Clean(invocation[Caller].replies[1].text))[1])

\* C12: only a parse failure is retried: a generation call that returns no
\* text (absent or empty), at any depth, is the last of the invocation, which
\* fails with 'No text in response'; one that raises is the last too, and
\* the invocation fails with what it raised; and every call after the first
\* follows a reply that was a text
C12_OnlyParseFailureRetries ==
    LET calls == invocation[Caller].calls
        replies == invocation[Caller].replies
    IN invocation[Caller].op = "generate_json_custom_ai" =>
        /\ Len(calls) <= Len(replies) + 1
        /\ \A i \in 1..Len(replies) :
             (~replies[i].ok \/ replies[i].text \in {None, <<>>}) =>
                 /\ i = Len(replies)
                 /\ Len(calls) = i
                 /\ pc[Caller] \in {"gj_parse", "idle"}
                 /\ pc[Caller] = "idle" =>
                      /\ outcome[Caller].status = "error"
                      /\ outcome[Caller].error =
                           (IF replies[i].ok THEN "No text in response"
                            ELSE "RemoteFailure")

\* after two retries the generation call returned no text, and the
\* invocation failed at once
C12_Witness ==
    /\ JsonEnded
    /\ outcome[Caller].error = "No text in response"
    /\ Len(invocation[Caller].replies) = 3
    /\ invocation[Caller].replies[3].text \in {None, <<>>}

\* the registry holds a prompt with the id the invocation was called with
PromptIdKnown ==
    \E i \in 1..Len(system_prompts) :
        system_prompts[i].id = invocation[Caller].args.prompt_id

\* C17: called with a prompt id that no entry of the list has,
\* generate_json_custom_ai fails with the not-found error, whatever retry
\* count it is called with, and makes no generation call
C17_UnknownPromptNoCall ==
    (invocation[Caller].op = "generate_json_custom_ai" /\ ~PromptIdKnown) =>
        /\ invocation[Caller].calls = <<>>
        /\ invocation[Caller].replies = <<>>
        /\ pc[Caller] \in {"gj_entry", "idle"}
        /\ pc[Caller] = "idle" =>
             /\ outcome[Caller].status = "error"
             /\ outcome[Caller].error = "System prompt not found"

\* a call with an unknown prompt id and a retry count of 3 has failed
C17_Witness ==
    /\ JsonEnded
    /\ ~PromptIdKnown
    /\ invocation[Caller].args.retry_count = 3
    /\ outcome[Caller].error = "System prompt not found"

\* C16: generate_text on an empty message list fails with 'No messages
\* provided.' in its first step: get_client is not called and no remote call
\* is made, whatever the credential is, and the client handle stays as it was
C16_EmptyMessagesFailFirst ==
    [][ \A t \in Threads :
          (pc[t] = "gt_entry" /\ frame[t].request = <<>>) =>
              /\ pc'[t] \in {"gt_entry", "idle"}
              /\ pc'[t] = "idle" =>
                   /\ outcome'[t].status = "error"
                   /\ outcome'[t].error = "No messages provided."
              /\ client' = client
              /\ constructed' = constructed
              /\ handed' = handed
              /\ invocation'[t].replies = <<>> ]_vars

\* generate_text has failed on an empty list while a credential was there
\* and no client had been built
C16_Witness ==
    /\ pc[Caller] = "idle"
    /\ invocation[Caller].op = "generate_text"
    /\ invocation[Caller].args.messages = <<>>
    /\ outcome[Caller].error = "No messages provided."
    /\ environ = "sk-A"
    /\ client = NoClient

-----------------------------------------------------------------------------
(* utils/openai_utils.py: add_messages, called by one caller.  A Python value
   is given with its type; a list is an object the callee could change, so
   the function is modelled with what it returns and with what the
   caller's list holds after the call. *)

\* the message dicts of the lists
ListMessages == { Msg(r, <<"hi">>) : r \in Roles }

\* what a caller may pass as new_messages: a dict, a list, or something else
NewMessagesValues ==
    { [type |-> "dict", value |-> <<m>>] : m \in ListMessages }
    \cup { [type |-> "list", value |-> l] : l \in SeqsUpTo(ListMessages, MaxLen) }
    \cup { [type |-> "tuple", value |-> <<m>>] : m \in ListMessages }
    \cup { [type |-> "str", value |-> <<>>], [type |-> "NoneType", value |-> <<>>] }

\* an add_messages that extends the caller's list and returns it
add_messages_InPlace(messages, new_messages) ==
    IF new_messages.type \in {"dict", "list"}
    THEN [ status |-> "ok", error |-> "",
           value |-> messages \o new_messages.value,
           messages |-> messages \o new_messages.value ]
    ELSE [ status |-> "error", error |-> "TypeError", value |-> <<>>,
           messages |-> messages ]

\* lines 173-178: `messages + [new_messages]` for a dict, `messages +
\* new_messages` for a list, each a new list; a TypeError for anything else
add_messages(messages, new_messages) ==
    IF new_messages.type = "dict"
    THEN [ status |-> "ok", error |-> "",
           value |-> messages \o << new_messages.value[1] >>,
           messages |-> messages ]
    ELSE IF new_messages.type = "list"
    THEN [ status |-> "ok", error |-> "",
           value |-> messages \o new_messages.value,
           messages |-> messages ]
    ELSE [ status |-> "error", error |-> "TypeError", value |-> <<>>,
           messages |-> messages ]

\* a caller calls add_messages(messages, new_messages) and keeps its list
CallAddMessages(t, messages, new_messages) ==
    /\ pc[t] = "idle"
    /\ reruns[t] < MaxCalls
    /\ reruns' = [reruns EXCEPT ![t] = @ + 1]
    /\ invocation' = [invocation EXCEPT ![t] =
                        [StartInvocation("add_messages", NoneId) EXCEPT
                           !.args = [messages |-> messages,
                                     new_messages |-> new_messages]]]
    /\ LET r == add_messages(messages, new_messages)
       IN /\ frame' = [frame EXCEPT ![t] =
                         [Frame0 EXCEPT !.top = "api", !.messages = r.messages]]
          /\ outcome' = [outcome EXCEPT ![t] =
                           [op |-> "add_messages", status |-> r.status,
                            error |-> r.error, value |-> r.value]]
    /\ UNCHANGED <<client, environ, db, chats, system_prompts, session_state,
                   widgets, pc, constructed, history, handed, endpoint, launcher>>

InitMessages ==
    /\ InitCommon
    /\ launcher = LauncherAtRest
    /\ endpoint = AnyEndpoint
    /\ environ = NoKey
    /\ chats = <<>>
    /\ db = [c \in ChatIds |-> <<>>]
    /\ history = [c \in ChatIds |-> <<>>]

NextMessages ==
    \E messages \in SeqsUpTo(ListMessages, MaxLen) :
        \E new_messages \in NewMessagesValues :
            CallAddMessages(Caller, messages, new_messages)

SpecMessages == InitMessages /\ [][NextMessages]_vars

\* C18: add_messages returns the existing messages followed by the message
\* (given a dict) or by all the messages in their order (given a list): the
\* length is the sum, the additions come last; the caller's list is as it
\* was; any other type of value fails with a TypeError
C18_ConcatenatesWithoutMutation ==
    invocation[Caller].op = "add_messages" =>
        LET messages == invocation[Caller].args.messages
            new_messages == invocation[Caller].args.new_messages
            result == outcome[Caller].value
            n == Len(messages)
        IN /\ frame[Caller].messages = messages
           /\ new_messages.type = "dict" =>
                /\ outcome[Caller].status = "ok"
                /\ Len(result) = n + 1
                /\ \A i \in 1..n : result[i] = messages[i]
                /\ result[n + 1] = new_messages.value[1]
           /\ new_messages.type = "list" =>
                /\ outcome[Caller].status = "ok"
                /\ Len(result) = n + Len(new_messages.value)
                /\ \A i \in 1..n : result[i] = messages[i]
                /\ \A i \in 1..Len(new_messages.value) :
                     result[n + i] = new_messages.value[i]
           /\ new_messages.type \notin {"dict", "list"} =>
                /\ outcome[Caller].status = "error"
                /\ outcome[Caller].error = "TypeError"

\* a list of two messages was added to a list of two messages
C18_Witness ==
    /\ invocation[Caller].op = "add_messages"
    /\ Len(invocation[Caller].args.messages) = 2
    /\ invocation[Caller].args.new_messages.type = "list"
    /\ Len(invocation[Caller].args.new_messages.value) = 2
    /\ Len(outcome[Caller].value) = 4

-----------------------------------------------------------------------------
(* app.py: the launcher, one process started from the command line.  What
   it finds around it is fixed when it starts: the data directory, the
   credential in the environment, the UI entry-point file, the streamlit
   command on the path, and what running streamlit comes to. *)

\* the command lines: no --ui option, --ui streamlit, --ui cli, --ui with a
\* value that is not a choice
ArgvValues == {"", "streamlit", "cli", "tui"}
\* the data directory: not there, there, or not creatable (mkdir raises)
DataDirStates == {"absent", "present", "blocked"}
\* subprocess.run(..., check=True): returns, or raises
RunResults == {"ok", "CalledProcessError", "FileNotFoundError", "PermissionError"}

LauncherStarts ==
    { [ pc |-> "main", argv |-> a, ui |-> "", data_dir |-> d, key_set |-> k,
        ui_file |-> f, which |-> w, run |-> r, events |-> <<>>,
        exit_code |-> NotExited ] :
        a \in ArgvValues, d \in DataDirStates, k \in BOOLEAN, f \in BOOLEAN,
        w \in BOOLEAN, r \in RunResults }

\* sys.exit(code), and an exception nobody catches, which ends the
\* interpreter with code 1
Exit(code) == [launcher EXCEPT !.pc = "exited", !.exit_code = code]

\* lines 81-83: argparse takes --ui, streamlit by default; a value that is
\* not a choice ends the process with code 2
MainParseArgs ==
    /\ launcher.pc = "main"
    /\ launcher' = IF launcher.argv \notin {"", "streamlit", "cli"} THEN Exit(2)
                   ELSE [launcher EXCEPT
                           !.ui = IF launcher.argv = "" THEN "streamlit"
                                  ELSE launcher.argv,
                           !.pc = "setup"]
    /\ UNCHANGED <<client, environ, db, chats, system_prompts, session_state, widgets,
                   pc, frame, outcome, constructed, invocation, history, handed,
                   endpoint, reruns>>

\* lines 26-34 and 85: make the data directory if it is not there; warn if
\* the credential is not in the environment
SetupEnvironment ==
    /\ launcher.pc = "setup"
    /\ launcher' =
         IF launcher.data_dir = "blocked"
         THEN [Exit(1) EXCEPT !.events = Append(@, "setup_environment")]
         ELSE [launcher EXCEPT
                 !.data_dir = "present",
                 !.events = @ \o <<"setup_environment">>
                              \o (IF launcher.key_set THEN <<>> ELSE <<"warning">>),
                 !.pc = "dispatch"]
    /\ UNCHANGED <<client, environ, db, chats, system_prompts, session_state, widgets,
                   pc, frame, outcome, constructed, invocation, history, handed,
                   endpoint, reruns>>

\* lines 87-93: run_streamlit or run_cli by args.ui
MainDispatch ==
    /\ launcher.pc = "dispatch"
    /\ launcher' = IF launcher.ui = "streamlit"
                   THEN [launcher EXCEPT !.pc = "run_streamlit"]
                   ELSE IF launcher.ui = "cli"
                   THEN [launcher EXCEPT !.pc = "run_cli"]
                   ELSE Exit(1)
    /\ UNCHANGED <<client, environ, db, chats, system_prompts, session_state, widgets,
                   pc, frame, outcome, constructed, invocation, history, handed,
                   endpoint, reruns>>

\* lines 74-77: the stub says it is not implemented and exits with 0
RunCli ==
    /\ launcher.pc = "run_cli"
    /\ launcher' = [Exit(0) EXCEPT !.events = Append(@, "run_cli")]
    /\ UNCHANGED <<client, environ, db, chats, system_prompts, session_state, widgets,
                   pc, frame, outcome, constructed, invocation, history, handed,
                   endpoint, reruns>>

\* a run_streamlit that goes on without the entry-point file
RunStreamlitFind_NoFileCheck ==
    /\ launcher.pc = "run_streamlit"
    /\ launcher' = [launcher EXCEPT !.pc = IF launcher.which THEN "launch_cmd"
                                           ELSE "launch_module"]
    /\ UNCHANGED <<client, environ, db, chats, system_prompts, session_state, widgets,
                   pc, frame, outcome, constructed, invocation, history, handed,
                   endpoint, reruns>>

\* lines 41-52: exit with 1 if the entry-point file is not there; else look
\* for the streamlit command on the path
RunStreamlitFind ==
    /\ launcher.pc = "run_streamlit"
    /\ launcher' = IF ~launcher.ui_file THEN Exit(1)
                   ELSE [launcher EXCEPT !.pc = IF launcher.which THEN "launch_cmd"
                                                ELSE "launch_module"]
    /\ UNCHANGED <<client, environ, db, chats, system_prompts, session_state, widgets,
                   pc, frame, outcome, constructed, invocation, history, handed,
                   endpoint, reruns>>

\* a run of the command that falls back on the module when it fails
RunStreamlitCommand_FallsBack ==
    /\ launcher.pc = "launch_cmd"
    /\ launcher' = IF launcher.run = "ok"
                   THEN [Exit(0) EXCEPT !.events = Append(@, "launch_cmd")]
                   ELSE [launcher EXCEPT !.events = Append(@, "launch_cmd"),
                                         !.pc = "launch_module"]
    /\ UNCHANGED <<client, environ, db, chats, system_prompts, session_state, widgets,
                   pc, frame, outcome, constructed, invocation, history, handed,
                   endpoint, reruns>>

\* lines 54-58: run the command found; CalledProcessError is logged and
\* exits with 1, any other exception is not caught; when the run returns,
\* main returns and the process ends with 0
RunStreamlitCommand ==
    /\ launcher.pc = "launch_cmd"
    /\ launcher' = [Exit(IF launcher.run = "ok" THEN 0 ELSE 1) EXCEPT
                      !.events = Append(@, "launch_cmd")]
    /\ UNCHANGED <<client, environ, db, chats, system_prompts, session_state, widgets,
                   pc, frame, outcome, constructed, invocation, history, handed,
                   endpoint, reruns>>

\* lines 60-72: the fallback, python -m streamlit; CalledProcessError and
\* FileNotFoundError are logged and exit with 1, any other exception is not
\* caught
RunStreamlitModule ==
    /\ launcher.pc = "launch_module"
    /\ launcher' = [Exit(IF launcher.run = "ok" THEN 0 ELSE 1) EXCEPT
                      !.events = Append(@, "launch_module")]
    /\ UNCHANGED <<client, environ, db, chats, system_prompts, session_state, widgets,
                   pc, frame, outcome, constructed, invocation, history, handed,
                   endpoint, reruns>>

InitLauncher ==
    /\ InitCommon
    /\ launcher \in LauncherStarts
    /\ endpoint = PlainEndpoint
    /\ environ = (IF launcher.key_set THEN "sk-A" ELSE NoKey)
    /\ chats = <<>>
    /\ db = [c \in ChatIds |-> <<>>]
    /\ history = [c \in ChatIds |-> <<>>]

NextLauncher ==
    \/ MainParseArgs
    \/ SetupEnvironment
    \/ MainDispatch
    \/ RunCli
    \/ RunStreamlitFind
    \/ RunStreamlitCommand
    \/ RunStreamlitModule

SpecLauncher == InitLauncher /\ [][NextLauncher]_vars

\* the launches attempted so far
Launches ==
    { i \in 1..Len(launcher.events) :
        launcher.events[i] \in {"launch_cmd", "launch_module"} }

\* C19: environment setup runs before the dispatch in both modes; the exit
\* code is 1 when setup fails; mode cli exits with 0 and launches nothing;
\* mode streamlit without the entry-point file exits with 1 and launches
\* nothing; a launch that fails exits with 1
C19_ExitCodes ==
    LET exited == launcher.pc = "exited"
    IN /\ launcher.pc \in {"dispatch", "run_streamlit", "run_cli",
                           "launch_cmd", "launch_module"} =>
             (launcher.events # <<>> /\ launcher.events[1] = "setup_environment")
       /\ \A i \in 1..Len(launcher.events) :
             launcher.events[i] \in {"launch_cmd", "launch_module", "run_cli"} =>
                 (i > 1 /\ launcher.events[1] = "setup_environment")
       /\ (exited /\ launcher.ui # "" /\ launcher.data_dir = "blocked") =>
             (launcher.exit_code = 1 /\ Launches = {})
       /\ (exited /\ launcher.ui = "cli" /\ launcher.data_dir # "blocked") =>
             (launcher.exit_code = 0 /\ Launches = {})
       /\ (exited /\ launcher.ui = "streamlit" /\ launcher.data_dir # "blocked"
              /\ ~launcher.ui_file) =>
             (launcher.exit_code = 1 /\ Launches = {})
       /\ (exited /\ Launches # {} /\ launcher.run # "ok") =>
             launcher.exit_code = 1
       /\ launcher.exit_code = 0 =>
             (launcher.ui = "cli" \/ (Launches # {} /\ launcher.run = "ok"))

\* started without --ui and without the streamlit command on the path, the
\* launcher tried the module, which failed, and exited with 1
C19_Witness ==
    /\ launcher.pc = "exited"
    /\ launcher.argv = ""
    /\ launcher.ui = "streamlit"
    /\ launcher.events[Len(launcher.events)] = "launch_module"
    /\ launcher.run = "FileNotFoundError"
    /\ launcher.exit_code = 1

\* event e is among the events of the run
Attempted(e) == \E i \in 1..Len(launcher.events) : launcher.events[i] = e

\* C24: run_streamlit tries the module fallback if and only if the
\* streamlit command is not found on the path: a run that gets to launching
\* tries the command when it is found and the module when it is not, one
\* launch at most; a command that is found and fails gives exit code 1 and
\* the module is not tried
C24_FallbackOnlyWhenNotFound ==
    /\ Cardinality(Launches) <= 1
    /\ Attempted("launch_module") => ~launcher.which
    /\ Attempted("launch_cmd") => launcher.which
    /\ (launcher.pc = "exited" /\ launcher.ui = "streamlit"
          /\ launcher.data_dir # "blocked" /\ launcher.ui_file) =>
            /\ Cardinality(Launches) = 1
            /\ Attempted("launch_module") <=> ~launcher.which
    /\ (launcher.pc = "exited" /\ Attempted("launch_cmd") /\ launcher.run # "ok") =>
            (launcher.exit_code = 1 /\ ~Attempted("launch_module"))

\* the streamlit command was found and run, it failed, and the launcher
\* exited with 1 after that one launch
C24_Witness ==
    /\ launcher.pc = "exited"
    /\ launcher.which
    /\ launcher.run = "CalledProcessError"
    /\ Attempted("launch_cmd")
    /\ ~Attempted("launch_module")
    /\ launcher.exit_code = 1

====
